---- MODULE Spec2Model ----
(***************************************************************************)
(* A model of rpex: ratios of sums ("1+2:3") evaluated against a           *)
(* hyper-rectangle, after src/src/dimension_sum.rs, sums_in_ratio.rs,      *)
(* ratio_ext.rs, parser_combinators.rs and nom_parsable.rs.                *)
(*                                                                         *)
(* Every function of the crate is pure, so a behaviour is one call: Init   *)
(* draws the arguments (and the build profile), one action applies the     *)
(* function and stores what it returned.                                   *)
(*                                                                         *)
(* u32 values are held in 32-bit two's-complement form: a value below 2^31 *)
(* is itself, a value v >= 2^31 is held as v - 2^32 (a negative number).   *)
(* This keeps the width of the code's integers exactly.                    *)
(***************************************************************************)
EXTENDS Integers, Sequences, FiniteSets, TLC

VARIABLES pc, overflow_checks, call, ret

vars == <<pc, overflow_checks, call, ret>>

----------------------------------------------------------------------------
(* Bounds of the model *)

\* largest known addend of an evaluated dimension sum
MaxAddend == 3
\* most addends of one evaluated dimension sum
MaxAddends == 3
\* largest axis length
MaxLen == 9
\* largest scale handed to IndeterminateDimensionSum::evaluate
MaxScale == 5
\* largest known addend, most addends of one axis, and largest axis length
\* of an evaluated ratio of D sums
MaxRatioAddend == 2
MaxRatioAddends == 2
MaxRatioLen == 6

----------------------------------------------------------------------------
(* Results: Ok(v), Err(e), or a panic of the thread *)

Ok(v) == [tag |-> "Ok", val |-> v]

Err(e) == [tag |-> "Err", err |-> e]

Panic(m) == [tag |-> "Panic", msg |-> m]

NoResult == [tag |-> "None"]

\* Option<T>: None is the empty sequence, Some(x) the sequence of x alone
None == << >>

Some(x) == <<x>>

----------------------------------------------------------------------------
(* u32 arithmetic on the two's-complement form *)

MaxI32 == 2147483647

TwoPow16 == 65536

\* 2^32 mod m
TwoPow32Rem(m) == ((TwoPow16 % m) * (TwoPow16 % m)) % m

\* v mod m, for m > 0
U32Rem(v, m) == IF v >= 0 THEN v % m ELSE (TwoPow32Rem(m) + (v % m)) % m

\* v / m rounded down, for m > 0
U32Div(v, m) ==
    IF v >= 0 THEN v \div m
    ELSE IF m = 1 THEN v
    ELSE 2 * (MaxI32 \div m) + ((2 * (MaxI32 % m) + 2 + v) \div m)

RECURSIVE Gcd(_, _)
Gcd(a, b) == IF b = 0 THEN a ELSE Gcd(b, a % b)

\* Integer::gcd of a u32 v with a small m
U32Gcd(v, m) == IF m = 0 THEN v ELSE Gcd(m, U32Rem(v, m))

\* the value of a u32 as a natural number is v below 2^31; above it the
\* number does not fit the checker's integers and only comparisons are made
IsHuge(v) == v < 0

----------------------------------------------------------------------------
(* Ratio<u32> (the num-rational type the crate takes from `fraction`) *)

\* Ratio::new(numer, denom) for denom > 0: the reduced fraction
Ratio_new(numer, denom) ==
    LET g == U32Gcd(numer, denom)
    IN  [numer |-> U32Div(numer, g), denom |-> denom \div g]

\* Ratio / u32, for rhs > 0
Ratio_div(r, rhs) ==
    LET g == U32Gcd(r.numer, rhs)
    IN  Ratio_new(U32Div(r.numer, g), r.denom * (rhs \div g))

\* Ratio::is_integer
is_integer(r) == r.denom = 1

\* RatioExt::try_to_integer
try_to_integer(r) ==
    IF is_integer(r) THEN Ok(U32Div(r.numer, r.denom))
    ELSE Err([kind |-> "NotAnInteger", ratio |-> r])

----------------------------------------------------------------------------
(* IndeterminateDimensionSum: the sequence of its addends, each an Option *)

RECURSIVE count_unknowns(_)
count_unknowns(self) ==
    IF self = << >> THEN 0
    ELSE (IF Head(self) = None THEN 1 ELSE 0) + count_unknowns(Tail(self))

RECURSIVE sum_knowns(_)
sum_knowns(self) ==
    IF self = << >> THEN 0
    ELSE (IF Head(self) = None THEN 0 ELSE Head(self)[1]) + sum_knowns(Tail(self))

\* Iterator::flatten over the addends: the known ones, in order
RECURSIVE flatten(_)
flatten(self) ==
    IF self = << >> THEN << >>
    ELSE Head(self) \o flatten(Tail(self))

infer_scale(self, length) ==
    IF count_unknowns(self) = 0
    THEN IF sum_knowns(self) = 0
         THEN Panic("denominator == 0")
         ELSE LET scale == try_to_integer(Ratio_new(length, sum_knowns(self)))
              IN  IF scale.tag = "Err" THEN scale ELSE Ok(Some(scale.val))
    ELSE Ok(None)

\* evaluate with .map(|_| solution) in place of
\* .map(|maybe_addend| maybe_addend.unwrap_or(solution))
evaluate_overwrites_knowns(self, length, scale) ==
    IF count_unknowns(self) = 0 \/ scale = 0 THEN Ok(flatten(self))
    ELSE LET total == Ratio_new(length, scale)
             subtrahend == total.denom * sum_knowns(self)
             solution ==
                 try_to_integer(Ratio_div(
                     Ratio_new(total.numer - subtrahend, total.denom),
                     count_unknowns(self)))
         IN  IF solution.tag = "Err" THEN solution
             ELSE Ok([i \in DOMAIN self |-> solution.val])

evaluate(self, length, scale) ==
    LET unknown_count == count_unknowns(self)
    IN  IF unknown_count # 0
        THEN IF scale = 0
             THEN Panic("denominator == 0")
             ELSE LET total == Ratio_new(length, scale)
                      subtrahend == total.denom * sum_knowns(self)
                  IN  IF total.numer < subtrahend /\ overflow_checks
                      THEN Panic("attempt to subtract with overflow")
                      ELSE LET total_unknown ==
                                   Ratio_new(total.numer - subtrahend, total.denom)
                               solution ==
                                   try_to_integer(Ratio_div(total_unknown, unknown_count))
                           IN  IF solution.tag = "Err"
                               THEN solution
                               ELSE Ok([i \in DOMAIN self |->
                                          IF self[i] = None THEN solution.val
                                          ELSE self[i][1]])
        ELSE Ok(flatten(self))

----------------------------------------------------------------------------
(* The calls of one dimension sum *)

Options == {None} \cup {Some(n) : n \in 0..MaxAddend}

SeqsUpTo(S, n) == UNION {[1..k -> S] : k \in 1..n}

IndeterminateDimensionSums == SeqsUpTo(Options, MaxAddends)

InitDimSum ==
    /\ pc = "ready"
    /\ overflow_checks \in BOOLEAN
    /\ \E fn \in {"evaluate", "infer_scale"} :
         \E self \in IndeterminateDimensionSums, length \in 0..MaxLen,
            scale \in 0..MaxScale :
           call = [fn |-> fn, self |-> self, length |-> length,
                   scale |-> IF fn = "evaluate" THEN scale ELSE 0]
    /\ ret = NoResult

CallEvaluate ==
    /\ pc = "ready"
    /\ call.fn = "evaluate"
    /\ ret' = evaluate(call.self, call.length, call.scale)
    /\ pc' = "done"
    /\ UNCHANGED <<overflow_checks, call>>

CallInferScale ==
    /\ pc = "ready"
    /\ call.fn = "infer_scale"
    /\ ret' = infer_scale(call.self, call.length)
    /\ pc' = "done"
    /\ UNCHANGED <<overflow_checks, call>>

NextDimSum == CallEvaluate \/ CallInferScale

SpecDimSum == InitDimSum /\ [][NextDimSum]_vars

----------------------------------------------------------------------------
(* IndeterminateSumsInRatio<D>: the sequence of its D dimension sums;      *)
(* HyperRectangle<D>: the sequence of its D lengths                        *)

\* impl Mul<u32> for IndeterminateDimensionSum: every known addend times rhs
dimension_sum_mul(self, rhs) ==
    [i \in DOMAIN self |-> IF self[i] = None THEN None ELSE Some(self[i][1] * rhs)]

\* IndeterminateDimensionSum::evaluate(length) of one argument, as the D-axis
\* evaluate calls it: the length is already divided by the scale
evaluate_length(self, length) == evaluate(self, length, 1)

\* the collection keeping only the scale inferred last (a Vec::last in place
\* of the HashSet)
RECURSIVE collect_inferred_scales_keeps_last(_, _, _, _)
collect_inferred_scales_keeps_last(sums, lengths, i, acc) ==
    IF i > Len(sums) THEN Ok(acc)
    ELSE LET r == infer_scale(sums[i], lengths[i])
         IN  IF r.tag = "Panic" THEN r
             ELSE IF r.tag = "Err"
             THEN Err([kind |-> "DoesNotDivide", source |-> r.err])
             ELSE collect_inferred_scales_keeps_last(sums, lengths, i + 1,
                      IF r.val = None THEN acc ELSE {r.val[1]})

\* .flat_map(|(sum, length)| sum.infer_scale(length).transpose())
\* .collect::<Result<HashSet<_>, _>>(): the axes in order, ended by the first
\* error (or panic)
RECURSIVE collect_inferred_scales(_, _, _, _)
collect_inferred_scales(sums, lengths, i, acc) ==
    IF i > Len(sums) THEN Ok(acc)
    ELSE LET r == infer_scale(sums[i], lengths[i])
         IN  IF r.tag = "Panic" THEN r
             ELSE IF r.tag = "Err"
             THEN Err([kind |-> "DoesNotDivide", source |-> r.err])
             ELSE collect_inferred_scales(sums, lengths, i + 1,
                                          acc \cup {r.val[k] : k \in DOMAIN r.val})

\* the fold taking only the first length
fold_gcd_first_length(init, lengths) ==
    IF lengths = << >> THEN init ELSE Gcd(init, Head(lengths))

\* lengths.iter().fold(known_scale, |gcd, length| gcd.gcd(length))
RECURSIVE fold_gcd(_, _)
fold_gcd(init, lengths) ==
    IF lengths = << >> THEN init
    ELSE fold_gcd(Gcd(init, Head(lengths)), Tail(lengths))

\* .map(|(sum, length)| sum.evaluate(length / scale)).collect::<Result<Vec<_>, _>>()
RECURSIVE collect_evaluated_sums(_, _, _, _, _)
collect_evaluated_sums(sums, lengths, scale, i, acc) ==
    IF i > Len(sums) THEN Ok(acc)
    ELSE LET r == evaluate_length(sums[i], lengths[i] \div scale)
         IN  IF r.tag = "Panic" THEN r
             ELSE IF r.tag = "Err"
             THEN Err([kind |-> "DimensionSumEvaluation", source |-> r.err])
             ELSE collect_evaluated_sums(sums, lengths, scale, i + 1, Append(acc, r.val))

\* the scale the fully known axes agree on
known_scale_of(inferred_scales) ==
    IF inferred_scales = {} THEN 1 ELSE CHOOSE s \in inferred_scales : TRUE

sums_in_ratio_evaluate(sums, lengths) ==
    LET inferred_scales == collect_inferred_scales(sums, lengths, 1, {})
    IN  IF inferred_scales.tag # "Ok" THEN inferred_scales
        ELSE IF Cardinality(inferred_scales.val) > 1
        THEN Err([kind |-> "UnequalScales", scales |-> inferred_scales.val])
        ELSE LET known_scale == known_scale_of(inferred_scales.val)
                 scale == fold_gcd(known_scale, lengths)
             IN  IF scale = 0 THEN Panic("attempt to divide by zero")
                 ELSE LET scale_factor == known_scale \div scale
                          scaled == [i \in DOMAIN sums |->
                                       dimension_sum_mul(sums[i], scale_factor)]
                          evaluated_sums ==
                              collect_evaluated_sums(scaled, lengths, scale, 1, << >>)
                      IN  IF evaluated_sums.tag # "Ok" THEN evaluated_sums
                          ELSE Ok([sums |-> evaluated_sums.val, scale |-> scale])

----------------------------------------------------------------------------
(* The calls of the D-axis evaluate, for D = 1 and D = 2 *)

Dimensions == {1, 2}

AxisSums == SeqsUpTo({None} \cup {Some(n) : n \in 0..MaxRatioAddend}, MaxRatioAddends)

\* the evaluations the specification gives as examples: "1+1" on 10,
\* "1+2:3" on 9x9 and on 9x6, "+" on 10
ExampleEvaluations ==
    { [sums |-> <<<<Some(1), Some(1)>>>>, lengths |-> <<10>>],
      [sums |-> <<<<Some(1), Some(2)>>, <<Some(3)>>>>, lengths |-> <<9, 9>>],
      [sums |-> <<<<Some(1), Some(2)>>, <<Some(3)>>>>, lengths |-> <<9, 6>>],
      [sums |-> <<<<None, None>>>>, lengths |-> <<10>>] }

InitEval ==
    /\ pc = "ready"
    /\ overflow_checks \in BOOLEAN
    /\ \/ \E D \in Dimensions :
            \E sums \in [1..D -> AxisSums], lengths \in [1..D -> 0..MaxRatioLen] :
              call = [fn |-> "sums_in_ratio_evaluate", sums |-> sums,
                      lengths |-> lengths]
       \/ \E e \in ExampleEvaluations :
              call = [fn |-> "sums_in_ratio_evaluate", sums |-> e.sums,
                      lengths |-> e.lengths]
    /\ ret = NoResult

CallSumsInRatioEvaluate ==
    /\ pc = "ready"
    /\ call.fn = "sums_in_ratio_evaluate"
    /\ ret' = sums_in_ratio_evaluate(call.sums, call.lengths)
    /\ pc' = "done"
    /\ UNCHANGED <<overflow_checks, call>>

NextEval == CallSumsInRatioEvaluate

SpecEval == InitEval /\ [][NextEval]_vars

----------------------------------------------------------------------------
(* Properties of the D-axis evaluate (SpecEval).  They are stated with     *)
(* arithmetic of their own, over the natural numbers, not with the         *)
(* operators of the model.                                                 *)

EvalDone == pc = "done" /\ call.fn = "sums_in_ratio_evaluate"

\* the natural number n is the sum of the u32 addends (an addend of 2^31 or
\* more exceeds every n the model meets)
RECURSIVE SumIs(_, _)
SumIs(addends, n) ==
    IF addends = << >> THEN n = 0
    ELSE /\ Head(addends) >= 0
         /\ Head(addends) <= n
         /\ SumIs(Tail(addends), n - Head(addends))

RECURSIVE KnownTotal(_)
KnownTotal(sum) ==
    IF sum = << >> THEN 0
    ELSE (IF Len(Head(sum)) = 1 THEN Head(sum)[1] ELSE 0) + KnownTotal(Tail(sum))

Unknowns(sum) == {k \in DOMAIN sum : Len(sum[k]) = 0}

\* the axes of the call that hold no unknown
KnownAxes == {i \in DOMAIN call.sums : Unknowns(call.sums[i]) = {}}

\* every fully known axis has a scale: its sum divides its length
KnownAxesInfer ==
    \A i \in KnownAxes :
        /\ KnownTotal(call.sums[i]) > 0
        /\ call.lengths[i] % KnownTotal(call.sums[i]) = 0

KnownAxisScales ==
    {call.lengths[i] \div KnownTotal(call.sums[i]) : i \in KnownAxes}

\* base_scale: the one scale of the fully known axes, or 1 without any
BaseScale == IF KnownAxisScales = {} THEN 1 ELSE CHOOSE s \in KnownAxisScales : TRUE

DividesAll(d, S) == \A x \in S : x % d = 0

Greatest(S) == CHOOSE x \in S : \A y \in S : y <= x

\* the greatest common divisor of a set of naturals that are not all 0
GreatestCommonDivisor(S) ==
    CHOOSE d \in 1..Greatest(S) :
        /\ DividesAll(d, S)
        /\ \A e \in 1..Greatest(S) : DividesAll(e, S) => e <= d

LengthSet == {call.lengths[i] : i \in DOMAIN call.lengths}

\* C1 (as claimed): whenever the D-axis evaluate returns Ok((sums, scale)),
\* on every axis the sum of the solved addends times scale is the axis length
C1_DivisibilityInvariant ==
    (EvalDone /\ ret.tag = "Ok") =>
        \A i \in DOMAIN call.sums :
            /\ ret.val.scale > 0
            /\ call.lengths[i] % ret.val.scale = 0
            /\ SumIs(ret.val.sums[i], call.lengths[i] \div ret.val.scale)

\* C2: when every fully known axis infers its scale, the call fails with
\* UnequalScales exactly when those axes infer two or more distinct scales,
\* and the error carries exactly the set of the distinct scales
C2_ScaleUnification ==
    (EvalDone /\ KnownAxesInfer) =>
        /\ (ret.tag = "Err" /\ ret.err.kind = "UnequalScales")
              <=> Cardinality(KnownAxisScales) >= 2
        /\ Cardinality(KnownAxisScales) >= 2 => ret.err.scales = KnownAxisScales

\* "1+2:3" on 9x6 has failed with UnequalScales({3, 2})
C2_Witness ==
    /\ EvalDone
    /\ call.sums = <<<<Some(1), Some(2)>>, <<Some(3)>>>>
    /\ call.lengths = <<9, 6>>
    /\ ret = Err([kind |-> "UnequalScales", scales |-> {3, 2}])

\* C3: on success the returned scale is gcd(base_scale, lengths[0..D-1]),
\* so it divides base_scale and every axis length
C3_FinalScale ==
    (EvalDone /\ ret.tag = "Ok") =>
        /\ ret.val.scale = GreatestCommonDivisor({BaseScale} \cup LengthSet)
        /\ DividesAll(ret.val.scale, {BaseScale} \cup LengthSet)

\* "1+2:3" on 9x9 has given scale 3 and the sums [1,2] and [3]
C3_Witness ==
    /\ EvalDone
    /\ call.sums = <<<<Some(1), Some(2)>>, <<Some(3)>>>>
    /\ call.lengths = <<9, 9>>
    /\ ret = Ok([sums |-> <<<<1, 2>>, <<3>>>>, scale |-> 3])

\* C4: on success every known addend a keeps its position and holds
\* a * scale_factor, scale_factor = base_scale / scale, so that its pixel
\* length is a * base_scale; every axis keeps its number of addends
C4_RatioFaithfulness ==
    (EvalDone /\ ret.tag = "Ok") =>
        \A i \in DOMAIN call.sums :
            /\ Len(ret.val.sums[i]) = Len(call.sums[i])
            /\ \A k \in DOMAIN call.sums[i] :
                 call.sums[i][k] # None =>
                    /\ BaseScale % ret.val.scale = 0
                    /\ ret.val.sums[i][k] =
                           call.sums[i][k][1] * (BaseScale \div ret.val.scale)
                    /\ ret.val.sums[i][k] * ret.val.scale =
                           call.sums[i][k][1] * BaseScale

\* a success with scale_factor > 1 that solved an unknown beside a known
\* addend: "1+" against "2" on 4x6 (base scale 3, scale 1)
C4_Witness ==
    /\ EvalDone
    /\ ret.tag = "Ok"
    /\ BaseScale > ret.val.scale
    /\ \E i \in DOMAIN call.sums :
         /\ Unknowns(call.sums[i]) # {}
         /\ \E k \in DOMAIN call.sums[i] :
              call.sums[i][k] # None /\ call.sums[i][k][1] > 0

----------------------------------------------------------------------------
(* Properties of one dimension sum (SpecDimSum) *)

DimEvalDone == pc = "done" /\ call.fn = "evaluate"

InferDone == pc = "done" /\ call.fn = "infer_scale"

\* C5 (as claimed): when evaluate(length, scale) succeeds on a sum with u >= 1
\* unknowns, every unknown holds solution = (length / scale - sum_of_knowns) / u,
\* every known addend holds its own value, and the positions are kept
C5_SolvedUnknowns ==
    (DimEvalDone /\ ret.tag = "Ok" /\ Unknowns(call.self) # {}) =>
        LET u == Cardinality(Unknowns(call.self))
            rest == call.length - KnownTotal(call.self) * call.scale
        IN  /\ call.scale > 0
            /\ rest >= 0
            /\ rest % (u * call.scale) = 0
            /\ Len(ret.val) = Len(call.self)
            /\ \A i \in DOMAIN call.self :
                 ret.val[i] = IF call.self[i] = None
                              THEN rest \div (u * call.scale)
                              ELSE call.self[i][1]

\* C6 (as claimed): evaluate(length, scale) returns a division error, and no
\* solved sum, whenever length is not a multiple of scale, or whenever
\* length / scale - sum_of_knowns is not an exact multiple of the number of
\* unknowns
C6_NeverRounds ==
    LET u == Cardinality(Unknowns(call.self))
    IN  (/\ DimEvalDone
         /\ call.scale > 0
         /\ \/ call.length % call.scale # 0
            \/ /\ u >= 1
               /\ ((call.length \div call.scale) - KnownTotal(call.self)) % u # 0)
        => ret.tag = "Err"

\* C7 (as claimed): infer_scale(length) with zero unknowns returns
\* Some(length / sum_of_knowns) when the sum divides the length and a division
\* error otherwise; with an unknown it returns None, never an error
C7_InferScale ==
    InferDone =>
        LET k == KnownTotal(call.self)
        IN  IF Unknowns(call.self) # {} THEN ret = Ok(None)
            ELSE IF k > 0 /\ call.length % k = 0
                 THEN ret = Ok(Some(call.length \div k))
            ELSE IF k > 0 THEN ret.tag = "Err"
            ELSE ret.tag \in {"Ok", "Err"}

----------------------------------------------------------------------------
(* SumsInRatio<D>::iter_partitions.  A solved DimensionSum is the sequence *)
(* of its addends.                                                         *)

\* most addends of one solved axis, and the largest of them
MaxSolvedAddends == 3
MaxSolvedAddend == 2

\* the scan with the offset taken after the addition
RECURSIVE scan_inclusive(_, _)
scan_inclusive(addends, offset) ==
    IF addends = << >> THEN << >>
    ELSE <<[addend |-> Head(addends), offset |-> offset + Head(addends)]>>
         \o scan_inclusive(Tail(addends), offset + Head(addends))

iter_with_offsets_inclusive(self) == scan_inclusive(self, 0)

\* .scan(0, |offset, addend| ...): each addend with the offset before it
RECURSIVE scan(_, _)
scan(addends, offset) ==
    IF addends = << >> THEN << >>
    ELSE <<[addend |-> Head(addends), offset |-> offset]>>
         \o scan(Tail(addends), offset + Head(addends))

iter_with_offsets(self) == scan(self, 0)

\* itertools' multi_cartesian_product: every choice of one element per list,
\* the last list cycling fastest
RECURSIVE multi_cartesian_product(_)
multi_cartesian_product(lists) ==
    IF lists = << >> THEN << << >> >>
    ELSE LET rest == multi_cartesian_product(Tail(lists))
             n == Len(rest)
         IN  [p \in 1..(Len(Head(lists)) * n) |->
                <<Head(lists)[((p - 1) \div n) + 1]>> \o rest[((p - 1) % n) + 1]]

\* the (addends, offsets) unzip of one combination
Partition(combination) ==
    [ratio_position |-> [i \in DOMAIN combination |-> combination[i].offset],
     ratio |-> [i \in DOMAIN combination |-> combination[i].addend]]

iter_partitions(sums) ==
    LET product == multi_cartesian_product(
                       [i \in DOMAIN sums |-> iter_with_offsets(sums[i])])
    IN  [p \in DOMAIN product |-> Partition(product[p])]

SolvedSums == SeqsUpTo(0..MaxSolvedAddend, MaxSolvedAddends)

\* solved ratios of three axes
ExamplePartitionings ==
    { <<<<1, 2>>, <<3>>, <<1, 1, 2>>>>,
      <<<<2, 1>>, <<1, 3>>, <<4, 5>>>>,
      <<<<1>>, <<2, 2, 2>>, <<0, 1>>>> }

InitPartitions ==
    /\ pc = "ready"
    /\ overflow_checks \in BOOLEAN
    /\ \/ \E D \in Dimensions : \E sums \in [1..D -> SolvedSums] :
            call = [fn |-> "iter_partitions", sums |-> sums]
       \/ \E sums \in ExamplePartitionings :
            call = [fn |-> "iter_partitions", sums |-> sums]
    /\ ret = NoResult

CallIterPartitions ==
    /\ pc = "ready"
    /\ call.fn = "iter_partitions"
    /\ ret' = iter_partitions(call.sums)
    /\ pc' = "done"
    /\ UNCHANGED <<overflow_checks, call>>

NextPartitions == CallIterPartitions

SpecPartitions == InitPartitions /\ [][NextPartitions]_vars

PartitionsDone == pc = "done" /\ call.fn = "iter_partitions"

RECURSIVE ProductOfLengths(_, _)
\* the product of the addend counts of the axes from i on
ProductOfLengths(sums, i) ==
    IF i > Len(sums) THEN 1 ELSE Len(sums[i]) * ProductOfLengths(sums, i + 1)

RECURSIVE PrefixSum(_, _)
\* the sum of the first n addends
PrefixSum(addends, n) ==
    IF n = 0 THEN 0 ELSE PrefixSum(addends, n - 1) + addends[n]

\* the index on axis i of the p-th partition in row-major order
RowMajorIndex(sums, p, i) ==
    (((p - 1) \div ProductOfLengths(sums, i + 1)) % Len(sums[i])) + 1

\* C8: iter_partitions yields the Cartesian product of the per-axis
\* (addend, offset) pairs in row-major order: as many partitions as the product
\* of the addend counts, the p-th one holding on axis i the addend of its
\* row-major index and, as position, the sum of the addends before it
C8_PartitionEnumeration ==
    PartitionsDone =>
        /\ Len(ret) = ProductOfLengths(call.sums, 1)
        /\ \A p \in DOMAIN ret : \A i \in DOMAIN call.sums :
             LET k == RowMajorIndex(call.sums, p, i)
             IN  /\ DOMAIN ret[p].ratio = DOMAIN call.sums
                 /\ DOMAIN ret[p].ratio_position = DOMAIN call.sums
                 /\ ret[p].ratio[i] = call.sums[i][k]
                 /\ ret[p].ratio_position[i] = PrefixSum(call.sums[i], k - 1)

\* the eight partitions of the three-axis ratio [2,1] : [1,3] : [4,5], the
\* last axis cycling fastest
C8_Witness ==
    /\ PartitionsDone
    /\ call.sums = <<<<2, 1>>, <<1, 3>>, <<4, 5>>>>
    /\ Len(ret) = 8
    /\ ret[2] = [ratio_position |-> <<0, 0, 4>>, ratio |-> <<2, 1, 5>>]
    /\ ret[3] = [ratio_position |-> <<0, 1, 0>>, ratio |-> <<2, 3, 4>>]
    /\ ret[8] = [ratio_position |-> <<2, 1, 4>>, ratio |-> <<1, 3, 5>>]

----------------------------------------------------------------------------
(* Parsing.  A &str is the sequence of its characters; a nom parser is a   *)
(* value naming the combinator and its arguments, applied by parse(p, i).  *)
(* An IResult is Ok([rest, out]) or Err([nom |-> "Error" or "Failure",     *)
(* code, input]).                                                          *)

\* most tokens (characters, or one of the two ten-digit numerals) of a text
MaxTokens == 4

Parsed(rest, out) == Ok([rest |-> rest, out |-> out])

ParseError(code, input) == Err([nom |-> "Error", code |-> code, input |-> input])

ParseFailure(code, input) == Err([nom |-> "Failure", code |-> code, input |-> input])

\* char::to_digit(10)
to_digit ==
    [c \in {"0", "1", "2", "3", "4", "5", "6", "7", "8", "9"} |->
        CASE c = "0" -> 0 [] c = "1" -> 1 [] c = "2" -> 2 [] c = "3" -> 3
          [] c = "4" -> 4 [] c = "5" -> 5 [] c = "6" -> 6 [] c = "7" -> 7
          [] c = "8" -> 8 [] c = "9" -> 9]

\* value * 10 + d in two's-complement form, for a result up to u32::MAX
mul_add(value, d) ==
    IF value <= (MaxI32 - d) \div 10 THEN value * 10 + d
    ELSE (((value - (MaxI32 \div 10) - 1) * 10) + d) - (MaxI32 - 1)

\* value.checked_mul(10) followed by a wrapping_add(d)
checked_mul_wrapping_add(value, d) ==
    IF value < 0 \/ value > MaxI32 \div 5 THEN None
    ELSE IF value = MaxI32 \div 5 /\ d > 5 THEN Some(d - 6)
    ELSE Some(mul_add(value, d))

\* value.checked_mul(10).and_then(|v| v.checked_add(d)) on u32: None when the
\* product or the sum passes u32::MAX = 2 * MaxI32 + 1
checked_mul_add(value, d) ==
    IF value < 0 \/ value > MaxI32 \div 5 THEN None
    ELSE IF value = MaxI32 \div 5 /\ d > 5 THEN None
    ELSE Some(mul_add(value, d))

\* the loop of nom's character::complete::u32 over the characters
RECURSIVE u32_loop(_, _, _)
u32_loop(input, position, value) ==
    IF position > Len(input) THEN Parsed(<< >>, value)
    ELSE IF input[position] \notin DOMAIN to_digit
    THEN IF position = 1 THEN ParseError("Digit", input)
         ELSE Parsed(SubSeq(input, position, Len(input)), value)
    ELSE LET next == checked_mul_add(value, to_digit[input[position]])
         IN  IF next = None THEN ParseError("Digit", input)
             ELSE u32_loop(input, position + 1, next[1])

\* nom::character::complete::u32
u32(input) ==
    IF Len(input) = 0 THEN ParseError("Digit", input) ELSE u32_loop(input, 1, 0)

\* nom::character::complete::char
char(c, input) ==
    IF Len(input) > 0 /\ Head(input) = c THEN Parsed(Tail(input), c)
    ELSE ParseError("Char", input)

\* the parser values
u32_parser == [kind |-> "u32"]

char_parser(c) == [kind |-> "char", c |-> c]

opt(f) == [kind |-> "opt", f |-> f]

\* pair(&mut sep, &mut f).map(|(_separator, element)| element)
pair_element(sep, f) == [kind |-> "pair_element", sep |-> sep, f |-> f]

IndeterminateDimensionSum_parser == [kind |-> "IndeterminateDimensionSum"]

RECURSIVE parse(_, _)

\* nom::combinator::opt
apply_opt(f, input) ==
    LET r == parse(f, input)
    IN  IF r.tag = "Ok" THEN Parsed(r.val.rest, Some(r.val.out))
        ELSE IF r.tag = "Err" /\ r.err.nom = "Error" THEN Parsed(input, None)
        ELSE r

\* nom::sequence::pair, keeping the second output
apply_pair_element(sep, f, input) ==
    LET r == parse(sep, input)
    IN  IF r.tag # "Ok" THEN r ELSE parse(f, r.val.rest)

\* the loop of nom::multi::separated_list1 after the first element
RECURSIVE separated_list1_loop(_, _, _, _)
separated_list1_loop(sep, f, i, res) ==
    LET s == parse(sep, i)
    IN  IF s.tag = "Err" /\ s.err.nom = "Error" THEN Parsed(i, res)
        ELSE IF s.tag # "Ok" THEN s
        ELSE IF Len(s.val.rest) = Len(i)
        THEN ParseError("SeparatedList", s.val.rest)
        ELSE LET e == parse(f, s.val.rest)
             IN  IF e.tag = "Err" /\ e.err.nom = "Error" THEN Parsed(i, res)
                 ELSE IF e.tag # "Ok" THEN e
                 ELSE separated_list1_loop(sep, f, e.val.rest, Append(res, e.val.out))

\* nom::multi::separated_list1
separated_list1(sep, f, input) ==
    LET first == parse(f, input)
    IN  IF first.tag # "Ok" THEN first
        ELSE separated_list1_loop(sep, f, first.val.rest, <<first.val.out>>)

\* usize in two's-complement form: a < b
usize_less(a, b) ==
    IF (a >= 0) = (b >= 0) THEN a < b ELSE a >= 0

\* the loop `for count in 0..max` of nom::multi::many_m_n
RECURSIVE many_m_n_loop(_, _, _, _, _, _)
many_m_n_loop(min, max, f, input, count, res) ==
    IF ~usize_less(count, max) THEN Parsed(input, res)
    ELSE LET r == parse(f, input)
         IN  IF r.tag = "Ok"
             THEN IF Len(r.val.rest) = Len(input) THEN ParseError("ManyMN", input)
                  ELSE many_m_n_loop(min, max, f, r.val.rest, count + 1,
                                     Append(res, r.val.out))
             ELSE IF r.tag = "Err" /\ r.err.nom = "Error"
             THEN IF usize_less(count, min) THEN r
                  ELSE Parsed(input, res)
             ELSE r

\* nom::multi::many_m_n; the initial capacity of its Vec is left out
many_m_n(min, max, f, input) ==
    IF usize_less(max, min) THEN ParseFailure("ManyMN", input)
    ELSE many_m_n_loop(min, max, f, input, 0, << >>)

\* parser_combinators::separated_list_m_n(min, max, sep, f)(input)
separated_list_m_n(min, max, sep, f, input) ==
    LET first == parse(f, input)
    IN  IF first.tag = "Err" /\ first.err.nom = "Error" /\ min = 0
        THEN Parsed(input, << >>)
        ELSE IF first.tag # "Ok" THEN first
        ELSE IF (min = 0 \/ max = 0) /\ overflow_checks
        THEN Panic("attempt to subtract with overflow")
        ELSE LET tail == many_m_n(min - 1, max - 1, pair_element(sep, f),
                                   first.val.rest)
             IN  IF tail.tag # "Ok" THEN tail
                 ELSE Parsed(tail.val.rest, <<first.val.out>> \o tail.val.out)

\* <IndeterminateDimensionSum as NomParsable>::parser
dimension_sum_parser(input) ==
    LET r == separated_list1(char_parser("+"), opt(u32_parser), input)
    IN  IF r.tag # "Ok" THEN r ELSE Parsed(r.val.rest, r.val.out)

\* a parser value applied to an input
parse(p, input) ==
    CASE p.kind = "u32" -> u32(input)
      [] p.kind = "char" -> char(p.c, input)
      [] p.kind = "opt" -> apply_opt(p.f, input)
      [] p.kind = "pair_element" -> apply_pair_element(p.sep, p.f, input)
      [] p.kind = "IndeterminateDimensionSum" -> dimension_sum_parser(input)

\* <IndeterminateSumsInRatio<D> as NomParsable>::parser
sums_in_ratio_parser(D, input) ==
    IF D = 0 THEN Panic("0-dimensional SumsInRatio are not supported")
    ELSE LET r == separated_list_m_n(D, D, char_parser(":"),
                                     IndeterminateDimensionSum_parser, input)
         IN  IF r.tag # "Ok" THEN r
             ELSE IF Len(r.val.out) # D
             THEN Panic("we parsed sums to have D elements")
             ELSE Parsed(r.val.rest, r.val.out)

\* a from_str that leaves all_consuming out
finish_prefix(r) ==
    IF r.tag = "Ok" THEN Ok(r.val.out)
    ELSE IF r.tag = "Err" THEN Err([input |-> r.err.input, code |-> r.err.code])
    ELSE r

\* impl_from_str_for_nom_parsable: all_consuming(parser)(s), finish(), and the
\* error with its input made a String
finish_all_consuming(r) ==
    IF r.tag = "Ok"
    THEN IF Len(r.val.rest) = 0 THEN Ok(r.val.out)
         ELSE Err([input |-> r.val.rest, code |-> "Eof"])
    ELSE IF r.tag = "Err" THEN Err([input |-> r.err.input, code |-> r.err.code])
    ELSE r

\* IndeterminateDimensionSum::from_str
dimension_sum_from_str(s) == finish_all_consuming(dimension_sum_parser(s))

\* IndeterminateSumsInRatio::<D>::from_str
sums_in_ratio_from_str(D, s) == finish_all_consuming(sums_in_ratio_parser(D, s))

----------------------------------------------------------------------------
(* The calls of from_str *)

\* u32::MAX and u32::MAX + 1 in decimal
MaxNumeral == <<"4", "2", "9", "4", "9", "6", "7", "2", "9", "5">>

OverflowNumeral == <<"4", "2", "9", "4", "9", "6", "7", "2", "9", "6">>

Tokens ==
    {<<c>> : c \in {"0", "1", "7", "+", ":", "x", "-"}}
        \cup {MaxNumeral, OverflowNumeral}

RECURSIVE TokenTexts(_)
TokenTexts(n) ==
    IF n = 0 THEN {<< >>}
    ELSE LET shorter == TokenTexts(n - 1)
         IN  shorter \cup {t \o s : t \in Tokens, s \in shorter}

\* the texts of the tests of dimension_sum.rs and sums_in_ratio.rs that are
\* longer than the token bound
ExampleTexts ==
    { <<"1", "+", "2", "+", "+", "4", "5", "+", "5", "6">>,
      <<"1", "2", "+", "3", "+", "4", "+", "5", "6">>,
      <<"1", "+", "+", "1", "x">>,
      <<"x", "1", "+", "+", "1">>,
      <<"1", "+", "2", ":", "3">>,
      <<"1", "2", "+", "3", "4", ":", "5", "6", "+", "+", "7", "8", "9">>,
      <<"1", "+", "+", "1", "x", ":", "1">>,
      <<"1", "+", "1", "-", "1", "+", "1">>,
      <<"1", "+", "1", ":", ":">>,
      <<"x", "1", "+", "1", ":", "1", "+", "1">> }

Texts == TokenTexts(MaxTokens) \cup ExampleTexts

InitParse ==
    /\ pc = "ready"
    /\ overflow_checks \in BOOLEAN
    /\ \E s \in Texts :
         \/ call = [fn |-> "dimension_sum_from_str", D |-> 1, s |-> s]
         \/ \E D \in Dimensions :
              call = [fn |-> "sums_in_ratio_from_str", D |-> D, s |-> s]
    /\ ret = NoResult

CallDimensionSumFromStr ==
    /\ pc = "ready"
    /\ call.fn = "dimension_sum_from_str"
    /\ ret' = dimension_sum_from_str(call.s)
    /\ pc' = "done"
    /\ UNCHANGED <<overflow_checks, call>>

CallSumsInRatioFromStr ==
    /\ pc = "ready"
    /\ call.fn = "sums_in_ratio_from_str"
    /\ ret' = sums_in_ratio_from_str(call.D, call.s)
    /\ pc' = "done"
    /\ UNCHANGED <<overflow_checks, call>>

NextParse == CallDimensionSumFromStr \/ CallSumsInRatioFromStr

SpecParse == InitParse /\ [][NextParse]_vars

----------------------------------------------------------------------------
(* Properties of from_str (SpecParse): the grammar, read off the text by   *)
(* splitting it at the separators                                          *)

DimensionSumParsed == pc = "done" /\ call.fn = "dimension_sum_from_str"

SumsInRatioParsed == pc = "done" /\ call.fn = "sums_in_ratio_from_str"

\* the fields of a text between the occurrences of sep
RECURSIVE Split(_, _)
Split(text, sep) ==
    IF \A i \in DOMAIN text : text[i] # sep THEN <<text>>
    ELSE LET k == CHOOSE i \in DOMAIN text :
                      text[i] = sep /\ \A j \in 1..(i - 1) : text[j] # sep
         IN  <<SubSeq(text, 1, k - 1)>> \o Split(SubSeq(text, k + 1, Len(text)), sep)

RECURSIVE StripZeros(_)
StripZeros(digits) ==
    IF digits # << >> /\ Head(digits) = "0" THEN StripZeros(Tail(digits)) ELSE digits

\* a <= b for two numerals of the same length
NumeralLeq(a, b) ==
    \/ a = b
    \/ \E i \in DOMAIN a :
         /\ to_digit[a[i]] < to_digit[b[i]]
         /\ \A j \in 1..(i - 1) : a[j] = b[j]

\* a non-empty string of decimal digits whose value is at most u32::MAX
IsNumeral(field) ==
    /\ field # << >>
    /\ \A i \in DOMAIN field : field[i] \in DOMAIN to_digit
    /\ LET n == StripZeros(field)
       IN  Len(n) < 10 \/ (Len(n) = 10 /\ NumeralLeq(n, MaxNumeral))

RECURSIVE Decimal(_, _)
\* the number written by the first k digits
Decimal(digits, k) ==
    IF k = 0 THEN 0 ELSE Decimal(digits, k - 1) * 10 + to_digit[digits[k]]

MaxI32Numeral == <<"2", "1", "4", "7", "4", "8", "3", "6", "4", "7">>

\* the u32 a numeral writes, in two's-complement form: from 2^31 on it is
\* n - 2^32 = 10 * (q - 429496728) + (r - 16) for n = 10 * q + r
NumeralValue(field) ==
    LET n == StripZeros(field)
    IN  IF Len(n) < 10 \/ NumeralLeq(n, MaxI32Numeral) THEN Decimal(n, Len(n))
        ELSE 10 * (Decimal(n, 9) - 429496728) + (to_digit[n[10]] - 16)

\* int? ('+' int?)*
IsDimensionSumText(text) ==
    \A k \in DOMAIN Split(text, "+") :
        Split(text, "+")[k] = << >> \/ IsNumeral(Split(text, "+")[k])

\* one position per field: None for an empty field, Some(n) for the numeral n
DimensionSumOf(text) ==
    [k \in DOMAIN Split(text, "+") |->
        IF Split(text, "+")[k] = << >> THEN None
        ELSE Some(NumeralValue(Split(text, "+")[k]))]

\* C9: IndeterminateDimensionSum::from_str succeeds exactly on the texts
\* int? ('+' int?)*, giving one position per field, Some(n) for the numeral n
\* and None for an empty field; every other text (another character, another
\* separator, a numeral above u32::MAX, trailing input) fails
C9_DimensionSumGrammar ==
    DimensionSumParsed =>
        IF IsDimensionSumText(call.s) THEN ret = Ok(DimensionSumOf(call.s))
        ELSE ret.tag = "Err"

\* "1+2++45+56" has parsed to [1, 2, None, 45, 56]
C9_Witness ==
    /\ DimensionSumParsed
    /\ call.s = <<"1", "+", "2", "+", "+", "4", "5", "+", "5", "6">>
    /\ ret = Ok(<<Some(1), Some(2), None, Some(45), Some(56)>>)

\* C10: IndeterminateSumsInRatio::<D>::from_str succeeds exactly when the text
\* is D dimension sums separated by ':', giving the D sums in order; fewer or
\* more sums, a bad dimension sum or another separator fail
C10_SumsInRatioGrammar ==
    SumsInRatioParsed =>
        LET fields == Split(call.s, ":")
        IN  IF /\ Len(fields) = call.D
               /\ \A k \in DOMAIN fields : IsDimensionSumText(fields[k])
            THEN ret = Ok([k \in DOMAIN fields |-> DimensionSumOf(fields[k])])
            ELSE ret.tag = "Err"

\* "12+34:56++789" has parsed, for D = 2, to [12, 34] and [56, None, 789]
C10_Witness ==
    /\ SumsInRatioParsed
    /\ call.D = 2
    /\ call.s = <<"1", "2", "+", "3", "4", ":", "5", "6", "+", "+", "7", "8", "9">>
    /\ ret = Ok(<<<<Some(12), Some(34)>>, <<Some(56), None, Some(789)>>>>)

----------------------------------------------------------------------------
(* Hyper-rectangles (rectangle.rs) *)

\* a parser that takes from 1 to D lengths
rectangle_parser_up_to_D(D, input) ==
    IF D = 0 THEN Panic("0-dimensional HyperRectangles not supported")
    ELSE LET r == separated_list_m_n(1, D, char_parser("x"), u32_parser, input)
         IN  IF r.tag # "Ok" THEN r ELSE Parsed(r.val.rest, r.val.out)

\* HyperRectangle::<D>::parser
rectangle_parser(D, input) ==
    IF D = 0 THEN Panic("0-dimensional HyperRectangles not supported")
    ELSE LET r == separated_list_m_n(D, D, char_parser("x"), u32_parser, input)
         IN  IF r.tag # "Ok" THEN r
             ELSE IF Len(r.val.out) # D
             THEN Panic("we parsed lengths to have D elements")
             ELSE Parsed(r.val.rest, r.val.out)

\* HyperRectangle::<D>::from_str: all_consuming, finish and map_err as in the
\* macro of nom_parsable.rs
rectangle_from_str(D, s) == finish_all_consuming(rectangle_parser(D, s))

\* the texts of the rectangle example: "100x200" and "100x200x300"
RectangleTexts ==
    { <<"1", "0", "0", "x", "2", "0", "0">>,
      <<"1", "0", "0", "x", "2", "0", "0", "x", "3", "0", "0">> }

InitRectangle ==
    /\ pc = "ready"
    /\ overflow_checks \in BOOLEAN
    /\ \E s \in Texts \cup RectangleTexts, D \in Dimensions :
         call = [fn |-> "rectangle_from_str", D |-> D, s |-> s]
    /\ ret = NoResult

CallRectangleFromStr ==
    /\ pc = "ready"
    /\ call.fn = "rectangle_from_str"
    /\ ret' = rectangle_from_str(call.D, call.s)
    /\ pc' = "done"
    /\ UNCHANGED <<overflow_checks, call>>

NextRectangle == CallRectangleFromStr

SpecRectangle == InitRectangle /\ [][NextRectangle]_vars

RectangleParsed == pc = "done" /\ call.fn = "rectangle_from_str"

\* a numeral of a positive u32
IsPositiveNumeral(field) == IsNumeral(field) /\ StripZeros(field) # << >>

\* C11: HyperRectangle::<D>::from_str succeeds, with the lengths in input
\* order, when the text is exactly D positive integers separated by 'x'; it
\* fails when the text has fewer or more than D numerals or another separator
C11_RectangleGrammar ==
    RectangleParsed =>
        LET fields == Split(call.s, "x")
        IN  /\ (/\ Len(fields) = call.D
                /\ \A k \in DOMAIN fields : IsPositiveNumeral(fields[k]))
                   => ret = Ok([k \in DOMAIN fields |-> NumeralValue(fields[k])])
            /\ (\/ Len(fields) # call.D
                \/ \E k \in DOMAIN fields : ~IsNumeral(fields[k]))
                   => ret.tag = "Err"

\* "100x200" has parsed, for D = 2, to [100, 200]
C11_Witness ==
    /\ RectangleParsed
    /\ call.D = 2
    /\ call.s = <<"1", "0", "0", "x", "2", "0", "0">>
    /\ ret = Ok(<<100, 200>>)

\* a length of 0 is parsed as well: the grammar of the code is int, not a
\* positive int
RectangleZeroLength ==
    /\ RectangleParsed
    /\ call.D = 2
    /\ call.s = <<"0", "x", "0">>
    /\ ret = Ok(<<0, 0>>)

----------------------------------------------------------------------------
(* Display of an indeterminate dimension sum, and the round trip through   *)
(* from_str                                                                *)

\* most positions of a printed sum
MaxPrinted == 3

\* char::from_digit(d, 10)
from_digit ==
    [d \in 0..9 |->
        CASE d = 0 -> "0" [] d = 1 -> "1" [] d = 2 -> "2" [] d = 3 -> "3"
          [] d = 4 -> "4" [] d = 5 -> "5" [] d = 6 -> "6" [] d = 7 -> "7"
          [] d = 8 -> "8" [] d = 9 -> "9"]

RECURSIVE u32_to_string(_)
\* u32::to_string: the decimal digits, without a sign or leading zeros
u32_to_string(n) ==
    IF 0 <= n /\ n < 10 THEN <<from_digit[n]>>
    ELSE u32_to_string(U32Div(n, 10)) \o <<from_digit[U32Rem(n, 10)]>>

\* the closure of the map of fmt
string_representation(addend) ==
    IF addend = None THEN << >> ELSE u32_to_string(addend[1])

RECURSIVE join(_, _)
\* [String]::join(sep)
join(strings, sep) ==
    IF Len(strings) = 0 THEN << >>
    ELSE IF Len(strings) = 1 THEN strings[1]
    ELSE strings[1] \o <<sep>> \o join(Tail(strings), sep)

\* <IndeterminateDimensionSum as Display>::fmt, through to_string
to_string(self) ==
    join([i \in DOMAIN self |-> string_representation(self[i])], "+")

\* the addends of the tests, and the ends of the u32 range: 2^31 - 1, 2^31 and
\* u32::MAX in two's-complement form
PrintedAddends == {0, 1, 7, 10, 45, 789, MaxI32, -MaxI32 - 1, -1}

\* the values of the type: addends is a public Vec, empty for
\* IndeterminateDimensionSum::default()
PrintedSums ==
    {<< >>} \cup SeqsUpTo({None} \cup {Some(n) : n \in PrintedAddends}, MaxPrinted)

InitRoundTrip ==
    /\ pc = "ready"
    /\ overflow_checks \in BOOLEAN
    /\ \E self \in PrintedSums :
         call = [fn |-> "round_trip", self |-> self, s |-> << >>]
    /\ ret = NoResult

CallToString ==
    /\ pc = "ready"
    /\ call.fn = "round_trip"
    /\ call' = [call EXCEPT !.s = to_string(call.self)]
    /\ pc' = "printed"
    /\ UNCHANGED <<overflow_checks, ret>>

CallFromStrOfPrinted ==
    /\ pc = "printed"
    /\ call.fn = "round_trip"
    /\ ret' = dimension_sum_from_str(call.s)
    /\ pc' = "done"
    /\ UNCHANGED <<overflow_checks, call>>

NextRoundTrip == CallToString \/ CallFromStrOfPrinted

SpecRoundTrip == InitRoundTrip /\ [][NextRoundTrip]_vars

RoundTripDone == pc = "done" /\ call.fn = "round_trip"

\* C12: for any indeterminate dimension sum s, parsing the text that Display
\* gives for s succeeds and yields a value equal to s
C12_RoundTrip == RoundTripDone => ret = Ok(call.self)

\* the round trip of the values that have at least one position
RoundTripOfNonEmptySums ==
    (RoundTripDone /\ Len(call.self) >= 1) => ret = Ok(call.self)

\* [1, 2, None, 45] was printed as "1+2++45" and parsed back
RoundTripOfATestSum ==
    /\ RoundTripDone
    /\ call.self = <<Some(1), Some(2), None>>
    /\ call.s = <<"1", "+", "2", "+">>
    /\ ret = Ok(call.self)

\* the sum without positions prints as "" and parses to [None]
RoundTripOfDefault ==
    /\ RoundTripDone
    /\ call.self = << >>
    /\ call.s = << >>
    /\ ret = Ok(<<None>>)

----------------------------------------------------------------------------
(* The divisibility checker (divides.rs), for T = u32 *)

\* the greatest dividend and divisor of a call, besides the ends of the range
MaxDividend == 12

MaxDivisor == 6

\* the tuple struct DoesNotDivide(T, T)
DoesNotDivide(first, second) ==
    [kind |-> "DoesNotDivide", first |-> first, second |-> second]

\* #[error("{0} does not divide {1}")]
does_not_divide_message(e) ==
    <<u32_to_string(e.first), "does not divide", u32_to_string(e.second)>>

\* <Divides<u32> as Div>::div: self is the dividend and rhs the divisor
divides_div(self, rhs) ==
    IF rhs = 0
    THEN Panic("attempt to calculate the remainder with a divisor of zero")
    ELSE IF U32Rem(self, rhs) = 0 THEN Ok(U32Div(self, rhs))
    ELSE Err(DoesNotDivide(self, rhs))

Dividends == (0..MaxDividend) \cup {MaxI32, -MaxI32 - 1, -1}

InitDivides ==
    /\ pc = "ready"
    /\ overflow_checks \in BOOLEAN
    /\ \E dividend \in Dividends, divisor \in 0..MaxDivisor :
         call = [fn |-> "div", dividend |-> dividend, divisor |-> divisor]
    /\ ret = NoResult

CallDiv ==
    /\ pc = "ready"
    /\ call.fn = "div"
    /\ ret' = divides_div(call.dividend, call.divisor)
    /\ pc' = "done"
    /\ UNCHANGED <<overflow_checks, call>>

NextDivides == CallDiv

SpecDivides == InitDivides /\ [][NextDivides]_vars

DivDone == pc = "done" /\ call.fn = "div"

\* C13: Divides(dividend) / Divides(divisor) returns the exact quotient when
\* dividend mod divisor = 0, and otherwise fails with DoesNotDivide(divisor,
\* dividend), whose message reads "<divisor> does not divide <dividend>"
C13_Divides ==
    (DivDone /\ call.divisor # 0) =>
        IF U32Rem(call.dividend, call.divisor) = 0
        THEN ret = Ok(U32Div(call.dividend, call.divisor))
        ELSE /\ ret = Err(DoesNotDivide(call.divisor, call.dividend))
             /\ does_not_divide_message(ret.err) =
                    <<u32_to_string(call.divisor), "does not divide",
                      u32_to_string(call.dividend)>>

\* 7 / 4 has failed with DoesNotDivide(7, 4), "7 does not divide 4"
DivOfSevenByFour ==
    /\ DivDone
    /\ call.dividend = 7
    /\ call.divisor = 4
    /\ ret = Err(DoesNotDivide(7, 4))
    /\ does_not_divide_message(ret.err) = <<<<"7">>, "does not divide", <<"4">>>>

\* the quotients and the operands of the errors, whatever their order
DivQuotientOrOperands ==
    (DivDone /\ call.divisor # 0) =>
        IF U32Rem(call.dividend, call.divisor) = 0
        THEN ret = Ok(U32Div(call.dividend, call.divisor))
        ELSE /\ ret.tag = "Err"
             /\ {ret.err.first, ret.err.second} = {call.dividend, call.divisor}

----------------------------------------------------------------------------
(* separated_list_m_n on its own, for every min and max, with the          *)
(* separator 'x' and the element u32 of the rectangle parser               *)

\* the greatest min and max of a call
MaxCount == 3

\* the longest input of a call
MaxListLen == 7

ListChars == {"1", "x", "+"}

RECURSIVE ListTexts(_)
ListTexts(n) ==
    IF n = 0 THEN {<< >>}
    ELSE LET shorter == ListTexts(n - 1)
         IN  shorter \cup {<<c>> \o s : c \in ListChars, s \in shorter}

InitList ==
    /\ pc = "ready"
    /\ overflow_checks \in BOOLEAN
    /\ \E min \in 0..MaxCount, max \in 0..MaxCount, s \in ListTexts(MaxListLen) :
         call = [fn |-> "separated_list_m_n", min |-> min, max |-> max, s |-> s]
    /\ ret = NoResult

CallSeparatedListMN ==
    /\ pc = "ready"
    /\ call.fn = "separated_list_m_n"
    /\ ret' = separated_list_m_n(call.min, call.max, char_parser("x"),
                                 u32_parser, call.s)
    /\ pc' = "done"
    /\ UNCHANGED <<overflow_checks, call>>

NextList == CallSeparatedListMN

SpecList == InitList /\ [][NextList]_vars

ListDone == pc = "done" /\ call.fn = "separated_list_m_n"

\* the number of digits a text starts with
LeadingDigits(text) ==
    CHOOSE n \in 0..Len(text) :
        /\ \A i \in 1..n : text[i] \in DOMAIN to_digit
        /\ n = Len(text) \/ text[n + 1] \notin DOMAIN to_digit

RECURSIVE ElementRun(_, _)
\* the elements a text starts with, each with the text left after it: a
\* numeral first, then separator and numeral as long as both are there
ElementRun(text, first) ==
    IF ~first /\ (text = << >> \/ Head(text) # "x") THEN << >>
    ELSE LET body == IF first THEN text ELSE Tail(text)
             n == LeadingDigits(body)
             rest == SubSeq(body, n + 1, Len(body))
         IN  IF n = 0 THEN << >>
             ELSE << [out |-> Decimal(body, n), rest |-> rest] >>
                      \o ElementRun(rest, FALSE)

\* what the contract gives: an error below min elements, and otherwise the
\* first max elements at most, with the input left after them
BoundedList(min, max, text) ==
    LET run == ElementRun(text, TRUE)
        k == IF Len(run) < max THEN Len(run) ELSE max
    IN  IF Len(run) < min THEN Err("fewer than min elements")
        ELSE Parsed(IF k = 0 THEN text ELSE run[k].rest,
                    [i \in 1..k |-> run[i].out])

\* C14: for every min <= max, min = 0 and max = 0 included,
\* separated_list_m_n(min, max, sep, f) returns between min and max elements
\* in input order with the unconsumed remainder; it fails below min elements,
\* stops after max elements, and with min = 0 gives the empty sequence,
\* consuming nothing, when the first element does not parse
C14_BoundedList ==
    (ListDone /\ call.min <= call.max) =>
        LET expected == BoundedList(call.min, call.max, call.s)
        IN  IF expected.tag = "Err" THEN ret.tag = "Err" ELSE ret = expected

\* the same for min >= 1, where min - 1 and max - 1 do not underflow
BoundedListFromOne ==
    (ListDone /\ 1 <= call.min /\ call.min <= call.max) =>
        LET expected == BoundedList(call.min, call.max, call.s)
        IN  IF expected.tag = "Err" THEN ret.tag = "Err" ELSE ret = expected

\* separated_list_m_n(2, 2) on "1x1x1" has stopped after two elements
ListStoppedAtMax ==
    /\ ListDone
    /\ call.min = 2 /\ call.max = 2
    /\ call.s = <<"1", "x", "1", "x", "1">>
    /\ ret = Parsed(<<"x", "1">>, <<1, 1>>)

\* separated_list_m_n(0, 2) on "1x1": a panic with overflow checks, and
\* without them many_m_n(usize::MAX, 1) fails
ListFromZeroOnAnElement ==
    /\ ListDone
    /\ call.min = 0 /\ call.max = 2
    /\ call.s = <<"1", "x", "1">>
    /\ IF overflow_checks THEN ret = Panic("attempt to subtract with overflow")
       ELSE ret = ParseFailure("ManyMN", <<"x", "1">>)

----------------------------------------------------------------------------
(* Totality of the D-axis evaluate (SpecEval) *)

\* the axes without an unknown whose known addends sum to 0
ZeroKnownAxes ==
    {i \in KnownAxes : \A k \in DOMAIN call.sums[i] : call.sums[i][k] = Some(0)}

\* C15: the D-axis evaluate ends with a solved result or a typed error, never
\* with an arithmetic underflow or a division by zero; a solved result has no
\* wrapped addend (each addend is between 0 and the length of its axis), and a
\* fully known axis whose addends sum to 0 gives a typed error
C15_EvaluateTotal ==
    EvalDone =>
        /\ ret.tag \in {"Ok", "Err"}
        /\ ret.tag = "Ok" =>
              \A i \in DOMAIN call.sums : \A k \in DOMAIN ret.val.sums[i] :
                  /\ ret.val.sums[i][k] >= 0
                  /\ ret.val.sums[i][k] <= call.lengths[i]
        /\ ZeroKnownAxes # {} => ret.tag = "Err"

\* "2+" on a length of 1 without overflow checks: a solved sum with the
\* wrapped addend u32::MAX
EvaluateWrapped ==
    /\ EvalDone
    /\ ~overflow_checks
    /\ call.sums = <<<<Some(2), None>>>>
    /\ call.lengths = <<1>>
    /\ ret = Ok([sums |-> <<<<2, -1>>>>, scale |-> 1])

\* the same call with overflow checks: a panic
EvaluateUnderflowPanics ==
    /\ EvalDone
    /\ overflow_checks
    /\ call.sums = <<<<Some(2), None>>>>
    /\ call.lengths = <<1>>
    /\ ret = Panic("attempt to subtract with overflow")

\* "0" on a length of 5: Ratio::new(5, 0) panics in infer_scale
EvaluateZeroSumPanics ==
    /\ EvalDone
    /\ call.sums = <<<<Some(0)>>>>
    /\ call.lengths = <<5>>
    /\ ret = Panic("denominator == 0")

====
